---- MODULE Spec2Model ----
(***************************************************************************)
(* Personal Projects Analysis simulator (src/app.py): a Streamlit script   *)
(* that is re-run from the top on every user interaction.  The state is    *)
(* st.session_state: the project registry, the rating store, the value     *)
(* ladder store and the cross-impact matrix.  Each action below is one     *)
(* user interaction together with the whole script run it causes.          *)
(***************************************************************************)
EXTENDS Integers, Sequences, FiniteSets

(* ------------------------------------------------------------------ *)
(* Input sets and bounds                                               *)
(* ------------------------------------------------------------------ *)

\* Project names typed into the "add_project" form.  "" is the empty
\* submission.  Each specification draws its names from one of these sets.
AppNames == {"a", "b"}
MatrixNames == {"a", "b", "c"}
LadderNames == {"a", "b", "c", "d"}
FactorNames == {"a"}

\* Free text typed into a laddering text_input; "" is an empty field.
Texts == {"x", "y"}

\* The 16 rating dimensions (lines 84-86).
Dims ==
    {"Importance", "Difficulty", "Visibility", "Control", "Responsibility",
     "Time Adequacy", "Outcome", "Self-Identity", "Others View",
     "Value Congruency", "Progress", "Challenge", "Absorption", "Support",
     "Competence", "Autonomy"}

\* Slider range and the default a new project gets.
MinRating == 0
MaxRating == 10
DefaultRating == 5
Ratings == MinRating..MaxRating

\* Slider positions explored for Importance in the ladder specifications.
ImportanceInputs == {5, 8}
\* Slider positions explored in SpecFactors: every position for the three
\* dimensions behind Stress, the ends and the midpoint for the others.
StressDims == {"Difficulty", "Challenge", "Competence"}
CoarseInputs == {MinRating, DefaultRating, MaxRating}

\* The cell values the data editor's NumberColumn admits (line 198), and
\* the values explored for a column that has no column_config: such a
\* column is a plain number column, with no minimum and no maximum.
CellVals == {-1, 0, 1}
WideCellVals == {-1, 0, 1, 2}

\* Number of projects offered for laddering (line 168).
TopN == 3
\* Stress threshold of the node colouring (line 230).
StressThreshold == 6
\* Sentinel of values.get(name, "N/A") (line 216).
NoValue == "N/A"

\* Exploration bounds: the non-zero matrix cells and the ladder entries a
\* state may hold, and in SpecFactors the ratings that differ from the
\* default.
MaxNonZero == 1
MaxLadder == 1
MaxRated == 2

VARIABLES
    projects,    \* st.session_state.projects: sequence of project names
    ratings,     \* st.session_state.ratings: name -> (dimension -> 0..10)
    values,      \* st.session_state.values: name -> text
    matrix,      \* st.session_state.matrix: labelled table
    sinceVisit,  \* history: registry changes since the last Cross-Impact visit
    last         \* history: the last user interaction

vars == <<projects, ratings, values, matrix, sinceVisit, last>>

(* ------------------------------------------------------------------ *)
(* Helpers: Python lists and dicts                                     *)
(* ------------------------------------------------------------------ *)

Range(s) == {s[i] : i \in 1..Len(s)}

Min(a, b) == IF a <= b THEN a ELSE b

\* s[:n]
Take(s, n) == SubSeq(s, 1, Min(n, Len(s)))

\* list.pop(i) with the Python index i (0-based): the list left behind.
Pop(s, i) == SubSeq(s, 1, i) \o SubSeq(s, i + 2, Len(s))

\* dict.get(k, default)
Get(d, k, default) == IF k \in DOMAIN d THEN d[k] ELSE default

\* d[k] = v
Put(d, k, v) == [x \in DOMAIN d \cup {k} |-> IF x = k THEN v ELSE d[x]]

\* del d[k]
Del(d, k) == [x \in DOMAIN d \ {k} |-> d[x]]

\* {}
EmptyDict == [x \in {} |-> 0]

\* Event record kept in `last`: the interaction, and of its input what the
\* properties below refer to (add: the name and whether it was appended;
\* delete: the index; setvalue: 1 for non-empty text; visit: the non-zero
\* cells stored before it; reset: the non-empty stores before it).
Event(op, name, text, idx) == [op |-> op, name |-> name, text |-> text, idx |-> idx]

(* ------------------------------------------------------------------ *)
(* The impact matrix: a pandas DataFrame                               *)
(* ------------------------------------------------------------------ *)

\* pd.DataFrame(): no rows, no columns.
EmptyFrame == [index |-> <<>>, columns |-> <<>>, cells |-> <<>>]

\* DataFrame.shape
Shape(m) == <<Len(m.index), Len(m.columns)>>

\* pd.DataFrame(0, index=names, columns=names)
ZeroFrame(names) ==
    [index |-> names, columns |-> names,
     cells |-> [i \in 1..Len(names) |-> [j \in 1..Len(names) |-> 0]]]

\* Variant: the matrix is rebuilt on every visit.
GetMatrixFresh(m, names) == ZeroFrame(names)

\* Lines 193-194: the stored matrix, rebuilt when its shape is not n x n.
GetMatrix(m, names) ==
    IF Shape(m) # <<Len(names), Len(names)>> THEN ZeroFrame(names) ELSE m

\* One cell of the data editor's result changed by the user.
SetCell(m, i, j, v) == [m EXCEPT !.cells[i][j] = v]

NonZeroCells(m) ==
    {<<i, j>> \in (1..Len(m.index)) \X (1..Len(m.columns)) : m.cells[i][j] # 0}

(* ------------------------------------------------------------------ *)
(* Phase 1: elicitation                                                *)
(* ------------------------------------------------------------------ *)

\* Variant: the last dimension of the list of lines 84-86 left out.
DefaultRatingsShort == [d \in Dims \ {"Autonomy"} |-> DefaultRating]

\* Lines 83-86: the rating set of a new project.
DefaultRatings == [d \in Dims |-> DefaultRating]

\* Variant: the duplicate check of line 80 left out.
AcceptedAnyName(projs, name) == name # ""

\* Lines 79-80: the submission is accepted.
Accepted(projs, name) == name # "" /\ name \notin Range(projs)

\* Lines 76-88.  A successful add re-runs the script in phase 1.
AddProject(name) ==
    /\ projects' = IF Accepted(projects, name) THEN Append(projects, name) ELSE projects
    /\ ratings' = IF Accepted(projects, name) THEN Put(ratings, name, DefaultRatings) ELSE ratings
    /\ sinceVisit' = IF Accepted(projects, name) /\ sinceVisit = "clean" THEN "dirty" ELSE sinceVisit
    /\ last' = Event("add", name, "", IF Accepted(projects, name) THEN 1 ELSE 0)
    /\ UNCHANGED <<values, matrix>>

\* Line 97.
PopProject(projs, i) == Pop(projs, i)

\* Variant: the name is read from the list after the pop of line 97.
DelRatingAfterPop(rs, projs, i) ==
    IF i + 1 <= Len(Pop(projs, i)) THEN Del(rs, Pop(projs, i)[i + 1]) ELSE rs

\* Line 98.
DelRating(rs, projs, i) == Del(rs, projs[i + 1])

\* Variant: the delete also drops the project's ladder entry.
DeleteProjectCascade(i) ==
    /\ i \in 0..(Len(projects) - 1)
    /\ projects' = PopProject(projects, i)
    /\ ratings' = DelRating(ratings, projects, i)
    /\ values' = Del(values, projects[i + 1])
    /\ sinceVisit' = IF sinceVisit = "clean" THEN "dirty" ELSE sinceVisit
    /\ last' = Event("delete", "", "", i)
    /\ UNCHANGED matrix

\* Lines 94-99: the delete button of the project at Python index i.
DeleteProject(i) ==
    /\ i \in 0..(Len(projects) - 1)
    /\ projects' = PopProject(projects, i)
    /\ ratings' = DelRating(ratings, projects, i)
    /\ sinceVisit' = IF sinceVisit = "clean" THEN "dirty" ELSE sinceVisit
    /\ last' = Event("delete", "", "", i)
    /\ UNCHANGED <<values, matrix>>

(* ------------------------------------------------------------------ *)
(* Sidebar: reset                                                      *)
(* ------------------------------------------------------------------ *)

\* Lines 29-32: the stores as created when absent from the session.
InitProjects == <<>>
InitRatings == EmptyDict
InitValues == EmptyDict
InitMatrix == EmptyFrame

\* History only: the stores that hold something.
NonEmptyStores ==
    {k \in {"projects", "ratings", "values", "matrix"} :
        \/ k = "projects" /\ projects # <<>>
        \/ k = "ratings" /\ DOMAIN ratings # {}
        \/ k = "values" /\ DOMAIN values # {}
        \/ k = "matrix" /\ Shape(matrix) # <<0, 0>>}

\* Variant: only the projects and ratings keys are deleted.
ResetRegistryOnly ==
    /\ projects' = <<>>
    /\ ratings' = EmptyDict
    /\ sinceVisit' = "never"
    /\ last' = Event("reset", "", "", Cardinality(NonEmptyStores))
    /\ UNCHANGED <<values, matrix>>

\* Lines 59-62 then 29-32: every key is deleted, the script re-runs and
\* recreates the four stores.
ResetSimulation ==
    /\ projects' = InitProjects
    /\ ratings' = InitRatings
    /\ values' = InitValues
    /\ matrix' = InitMatrix
    /\ sinceVisit' = "never"
    /\ last' = Event("reset", "", "", Cardinality(NonEmptyStores))

(* ------------------------------------------------------------------ *)
(* Phase 2: appraisal                                                  *)
(* ------------------------------------------------------------------ *)

\* Lines 113-152: the slider of dimension dim of the selected project p is
\* moved to v; r is read, the field assigned, and r written back.
SaveRating(rs, p, dim, v) == Put(rs, p, [rs[p] EXCEPT ![dim] = v])

Rate(p, dim, v) ==
    /\ p \in Range(projects)
    /\ v \in Ratings
    /\ ratings' = SaveRating(ratings, p, dim, v)
    /\ last' = Event("rate", "", "", 0)
    /\ UNCHANGED <<projects, values, matrix, sinceVisit>>

NonDefaultCells(rs) ==
    {<<p, d>> \in (DOMAIN rs) \X Dims : rs[p][d] # DefaultRating}

(* ------------------------------------------------------------------ *)
(* Phase 3: laddering                                                  *)
(* ------------------------------------------------------------------ *)

\* The sort key of line 167.
Importance(rs, p) == rs[p]["Importance"]

\* Variant: x goes in front of the elements with an equal key.
InsertPosBeforeTies(s, x, rs) ==
    Cardinality({i \in 1..Len(s) : Importance(rs, s[i]) > Importance(rs, x)})

\* Where x goes in s, sorted by descending key: behind every element whose
\* key is not smaller (sorted(..., reverse=True) keeps equal keys in order).
InsertPos(s, x, rs) ==
    Cardinality({i \in 1..Len(s) : Importance(rs, s[i]) >= Importance(rs, x)})

InsertDesc(s, x, rs) ==
    SubSeq(s, 1, InsertPos(s, x, rs)) \o <<x>> \o SubSeq(s, InsertPos(s, x, rs) + 1, Len(s))

\* Line 167: sorted(projects, key=Importance, reverse=True).
RECURSIVE SortedProjs(_, _)
SortedProjs(projs, rs) ==
    IF projs = <<>> THEN <<>>
    ELSE InsertDesc(SortedProjs(SubSeq(projs, 1, Len(projs) - 1), rs), projs[Len(projs)], rs)

\* Line 168: top_3 = sorted_projs[:3].
Top3(projs, rs) == Take(SortedProjs(projs, rs), TopN)

\* Variant: the test of line 176 left out.
LadderWriteAlways(vs, name, val) == Put(vs, name, val)

\* Lines 176-177: if val: values[name] = val.
LadderWrite(vs, name, val) == IF val # "" THEN Put(vs, name, val) ELSE vs

\* Lines 170-177 over the whole top-3 list; typed[name] is what the
\* text_input of name returns in this run.
RECURSIVE LadderLoop(_, _, _)
LadderLoop(vs, top, typed) ==
    IF top = <<>> THEN vs
    ELSE LadderLoop(LadderWrite(vs, top[1], typed[top[1]]), Tail(top), typed)

\* What the text inputs return when the user has typed text into the one
\* of project name: the others hold what the store holds (their default).
Typed(vs, top, name, text) ==
    [p \in Range(top) |-> IF p = name THEN text ELSE Get(vs, p, "")]

\* Lines 163-177: the user submits text in the field of project name.
SetValue(name, text) ==
    /\ name \in Range(Top3(projects, ratings))
    /\ values' = LadderLoop(values, Top3(projects, ratings),
                            Typed(values, Top3(projects, ratings), name, text))
    /\ last' = Event("setvalue", "", "", IF text = "" THEN 0 ELSE 1)
    /\ UNCHANGED <<projects, ratings, matrix, sinceVisit>>

(* ------------------------------------------------------------------ *)
(* Phase 4: cross-impact                                               *)
(* ------------------------------------------------------------------ *)

\* Variant: the test of line 190 left out.
VisitWithoutMinimum ==
    /\ matrix' = GetMatrix(matrix, projects)
    /\ sinceVisit' = "clean"
    /\ last' = Event("visit", "", "", Cardinality(NonZeroCells(matrix)))
    /\ UNCHANGED <<projects, ratings, values>>

\* Lines 189-201: the phase is selected.  With fewer than 2 projects only a
\* warning is shown; otherwise the matrix is rebuilt on a shape mismatch and
\* the data editor, freshly shown, returns it as it is.
VisitCrossImpact ==
    /\ matrix' = IF Len(projects) < 2 THEN matrix ELSE GetMatrix(matrix, projects)
    /\ sinceVisit' = IF Len(projects) < 2 THEN sinceVisit ELSE "clean"
    /\ last' = Event("visit", "", "", Cardinality(NonZeroCells(matrix)))
    /\ UNCHANGED <<projects, ratings, values>>

\* Line 198: the values the editor accepts in column j.  Only the columns
\* named after current projects get the bounded NumberColumn.
CellInputs(m, names, j) ==
    IF m.columns[j] \in Range(names) THEN CellVals ELSE WideCellVals

\* Lines 189-201 re-run after the user edits cell (i, j) of the editor on
\* display: possible only while the phase is shown, that is after a visit
\* with no registry change since.
EditCell(i, j, v) ==
    /\ sinceVisit = "clean"
    /\ Len(projects) >= 2
    /\ i \in 1..Len(GetMatrix(matrix, projects).index)
    /\ j \in 1..Len(GetMatrix(matrix, projects).columns)
    /\ v \in CellInputs(GetMatrix(matrix, projects), projects, j)
    /\ matrix' = SetCell(GetMatrix(matrix, projects), i, j, v)
    /\ last' = Event("editcell", "", "", 0)
    /\ UNCHANGED <<projects, ratings, values, sinceVisit>>

(* ------------------------------------------------------------------ *)
(* Derived metrics and phase 5: dashboard                              *)
(* ------------------------------------------------------------------ *)

\* A Python float quotient of two integers, kept exact.
Frac(n, d) == [num |-> n, den |-> d]

\* f > k for a quotient with a positive denominator.
Greater(f, k) == f.num > k * f.den

\* Lines 35-42.
calculate_factors(r) ==
    [Stress |-> Frac(Get(r, "Difficulty", 0) + Get(r, "Challenge", 0)
                        + (10 - Get(r, "Competence", 0)), 3),
     Meaning |-> Frac(Get(r, "Importance", 0) + Get(r, "Value Congruency", 0)
                        + Get(r, "Self-Identity", 0), 3),
     Efficacy |-> Frac(Get(r, "Progress", 0) + Get(r, "Control", 0)
                        + Get(r, "Outcome", 0), 3),
     Structure |-> Frac(Get(r, "Control", 0) + Get(r, "Time Adequacy", 0), 2),
     Community |-> Frac(Get(r, "Visibility", 0) + Get(r, "Support", 0), 2)]

\* Variant: the default of the text input instead of the sentinel.
CoreValueBlank(vs, name) == Get(vs, name, "")

\* Line 216.
CoreValue(vs, name) == Get(vs, name, NoValue)

\* Lines 213-217: the row of one project.
Row(name, rs, vs) ==
    [Stress |-> calculate_factors(rs[name]).Stress,
     Meaning |-> calculate_factors(rs[name]).Meaning,
     Efficacy |-> calculate_factors(rs[name]).Efficacy,
     Structure |-> calculate_factors(rs[name]).Structure,
     Community |-> calculate_factors(rs[name]).Community,
     Name |-> name,
     CoreValue |-> CoreValue(vs, name)]

\* Lines 211-218: df, one row per element of the registry, in its order.
DashboardData(projs, rs, vs) == [i \in 1..Len(projs) |-> Row(projs[i], rs, vs)]

\* Variant: the comparison of line 230 made non-strict.
IsHighStressFromThreshold(row) == row.Stress.num >= StressThreshold * row.Stress.den

\* Line 230: the node of a row is red when its Stress exceeds 6.
IsHighStress(row) == Greater(row.Stress, StressThreshold)

NodeColor(row) == IF IsHighStress(row) THEN "#E74C3C" ELSE "#3498DB"

\* Line 238: mat.loc[p1, p2], the cell at the row labelled p1 and the
\* column labelled p2 (the labels of a stored matrix are distinct).
Loc(m, p1, p2) ==
    m.cells[CHOOSE i \in 1..Len(m.index) : m.index[i] = p1]
           [CHOOSE j \in 1..Len(m.columns) : m.columns[j] = p2]

\* graph.edge(p1, p2, color=..., style=...)
Edge(p1, p2, color, style) == [src |-> p1, dst |-> p2, color |-> color, style |-> style]

\* Variant: the test of line 237 left out.
EdgeOfAnyPair(m, i, j) ==
    IF Loc(m, m.index[i], m.columns[j]) = 1
    THEN <<Edge(m.index[i], m.columns[j], "#2ECC71", "solid")>>
    ELSE IF Loc(m, m.index[i], m.columns[j]) = -1
    THEN <<Edge(m.index[i], m.columns[j], "#E74C3C", "dashed")>>
    ELSE <<>>

\* Lines 237-240 for the row at position i and the column at position j:
\* the edges drawn, none or one.
EdgeOf(m, i, j) ==
    IF m.index[i] # m.columns[j] /\ Loc(m, m.index[i], m.columns[j]) = 1
    THEN <<Edge(m.index[i], m.columns[j], "#2ECC71", "solid")>>
    ELSE IF m.index[i] # m.columns[j] /\ Loc(m, m.index[i], m.columns[j]) = -1
    THEN <<Edge(m.index[i], m.columns[j], "#E74C3C", "dashed")>>
    ELSE <<>>

\* Lines 235-240: the two loops, row by row, from the k-th pair on.
RECURSIVE EdgesFrom(_, _)
EdgesFrom(m, k) ==
    IF k > Len(m.index) * Len(m.columns) THEN <<>>
    ELSE EdgeOf(m, ((k - 1) \div Len(m.columns)) + 1, ((k - 1) % Len(m.columns)) + 1)
            \o EdgesFrom(m, k + 1)

\* Lines 233-240: the edges handed to the graph.
EdgeList(m) == EdgesFrom(m, 1)

\* Lines 207-242: the edges of the rendered dashboard; with an empty
\* registry only "No data." is shown.
DashboardEdges(projs, m) == IF projs = <<>> THEN <<>> ELSE EdgeList(m)

\* Line 276: df.to_csv(): a header line, then one line per row led by the
\* row's positional index.
CsvHeader ==
    <<"", "Stress", "Meaning", "Efficacy", "Structure", "Community", "Name", "Core Value">>

CsvLine(df, i) ==
    <<i - 1, df[i].Stress, df[i].Meaning, df[i].Efficacy, df[i].Structure,
      df[i].Community, df[i].Name, df[i].CoreValue>>

ToCsv(df) == <<CsvHeader>> \o [i \in 1..Len(df) |-> CsvLine(df, i)]

(* ------------------------------------------------------------------ *)
(* Specifications                                                      *)
(* ------------------------------------------------------------------ *)

Init ==
    /\ projects = InitProjects
    /\ ratings = InitRatings
    /\ values = InitValues
    /\ matrix = InitMatrix
    /\ sinceVisit = "never"
    /\ last = Event("init", "", "", 0)

\* Exploration guards.
MayEditCell(i, j, v) ==
    v = 0 \/ Cardinality(NonZeroCells(matrix) \cup {<<i, j>>}) <= MaxNonZero

MaySetValue(name) ==
    Cardinality(DOMAIN values \cup {name}) <= MaxLadder

MayRate(p, dim) ==
    Cardinality(NonDefaultCells(ratings) \cup {<<p, dim>>}) <= MaxRated

\* The whole application, two project names.
Next ==
    \/ \E name \in AppNames \cup {""} : AddProject(name)
    \/ \E i \in 0..1 : DeleteProject(i)
    \/ \E p \in AppNames, v \in ImportanceInputs : Rate(p, "Importance", v)
    \/ \E name \in AppNames, text \in Texts \cup {""} :
          MaySetValue(name) /\ SetValue(name, text)
    \/ VisitCrossImpact
    \/ \E i \in 1..2, j \in 1..2, v \in WideCellVals :
          MayEditCell(i, j, v) /\ EditCell(i, j, v)
    \/ ResetSimulation

Spec == Init /\ [][Next]_vars

\* Registry and cross-impact matrix, three project names.
NextMatrix ==
    \/ \E name \in MatrixNames \cup {""} : AddProject(name)
    \/ \E i \in 0..2 : DeleteProject(i)
    \/ VisitCrossImpact
    \/ \E i \in 1..3, j \in 1..3, v \in WideCellVals :
          MayEditCell(i, j, v) /\ EditCell(i, j, v)
    \/ ResetSimulation

SpecMatrix == Init /\ [][NextMatrix]_vars

\* Registry, Importance ratings and value ladder, four project names.
NextLadder ==
    \/ \E name \in LadderNames \cup {""} : AddProject(name)
    \/ \E i \in 0..3 : DeleteProject(i)
    \/ \E p \in LadderNames, v \in ImportanceInputs : Rate(p, "Importance", v)
    \/ \E name \in LadderNames, text \in Texts \cup {""} :
          MaySetValue(name) /\ SetValue(name, text)
    \/ ResetSimulation

SpecLadder == Init /\ [][NextLadder]_vars

\* One project and its sliders: the inputs of calculate_factors.
SliderInputs(dim) == IF dim \in StressDims THEN Ratings ELSE CoarseInputs

NextFactors ==
    \/ \E name \in FactorNames \cup {""} : AddProject(name)
    \/ \E p \in FactorNames, dim \in Dims : \E v \in SliderInputs(dim) :
          MayRate(p, dim) /\ Rate(p, dim, v)

SpecFactors == Init /\ [][NextFactors]_vars

(* ------------------------------------------------------------------ *)
(* Properties                                                          *)
(* ------------------------------------------------------------------ *)

\* C1: referential integrity.  Every key of the rating store, every key of
\* the value ladder store and every row and column label of the impact
\* matrix is the name of a project in the registry.
C1_ReferentialIntegrity ==
    /\ DOMAIN ratings \subseteq Range(projects)
    /\ DOMAIN values \subseteq Range(projects)
    /\ Range(matrix.index) \subseteq Range(projects)
    /\ Range(matrix.columns) \subseteq Range(projects)

\* C2: an add whose name is empty or already in the registry changes none
\* of the four stores, and the names in the registry are pairwise distinct.
C2_RejectedAddIsNoOp ==
    [][/\ (last'.op = "add" /\ (last'.name = "" \/ last'.name \in Range(projects)))
           => /\ projects' = projects
              /\ ratings' = ratings
              /\ values' = values
              /\ matrix' = matrix
       /\ \A i, j \in 1..Len(projects') : i # j => projects'[i] # projects'[j]]_vars

\* C2 witness: a duplicate name was just submitted while the registry, the
\* ladder store and the matrix all hold something.
C2_Witness ==
    /\ last.op = "add"
    /\ last.name \in Range(projects)
    /\ last.idx = 0
    /\ Len(projects) = 2
    /\ DOMAIN values # {}
    /\ NonZeroCells(matrix) # {}

\* C3: a delete at index i removes the project at position i and that
\* project's rating entry and nothing else: the registry is one shorter, the
\* other projects keep their order, the other rating entries are unchanged.
C3_DeleteRemovesExactlyOne ==
    [][last'.op = "delete"
          => /\ last'.idx \in 0..(Len(projects) - 1)
             /\ Len(projects') = Len(projects) - 1
             /\ \A k \in 1..Len(projects') :
                   projects'[k] = IF k <= last'.idx THEN projects[k] ELSE projects[k + 1]
             /\ DOMAIN ratings' = DOMAIN ratings \ {projects[last'.idx + 1]}
             /\ \A n \in DOMAIN ratings' : ratings'[n] = ratings[n]]_vars

\* C3 witness: an inner project was just deleted, projects remain on both
\* sides of it, and a remaining project carries a rating that is not the
\* default.
C3_Witness ==
    /\ last.op = "delete"
    /\ last.idx = 1
    /\ Len(projects) = 3
    /\ \E n \in Range(projects) : ratings[n]["Importance"] # DefaultRating

\* C4: in the state a reset leaves, the registry, the rating store, the
\* ladder store and the matrix are all empty.
C4_ResetClearsAll ==
    last.op = "reset"
        => /\ Len(projects) = 0
           /\ DOMAIN ratings = {}
           /\ DOMAIN values = {}
           /\ Len(matrix.index) = 0
           /\ Len(matrix.columns) = 0

\* C4 witness: a reset was just done from a state in which all four stores
\* held something.
C4_Witness ==
    /\ last.op = "reset"
    /\ last.idx = 4

\* The table t is all zero, n x n, with the name list as row and as column
\* labels.
IsZeroTable(t, names) ==
    /\ t.index = names
    /\ t.columns = names
    /\ Len(t.cells) = Len(names)
    /\ \A i \in 1..Len(names) :
          /\ Len(t.cells[i]) = Len(names)
          /\ \A j \in 1..Len(names) : t.cells[i][j] = 0

\* C5: when projects were added or deleted since the previous Cross-Impact
\* visit, a visit with at least 2 projects leaves an all-zero matrix
\* labelled with the current registry names.
C5_RegistryChangeDropsScores ==
    [][(last'.op = "visit" /\ sinceVisit = "dirty" /\ Len(projects) >= 2)
          => IsZeroTable(matrix', projects)]_vars

\* C6: a Cross-Impact visit with n >= 2 projects replaces a stored matrix
\* whose shape is not n x n by the all-zero n x n table labelled with the
\* registry names in registry order, and keeps a stored n x n matrix as it
\* is.
C6_RebuildRule ==
    [][(last'.op = "visit" /\ Len(projects) >= 2)
          => IF Len(matrix.index) # Len(projects) \/ Len(matrix.columns) # Len(projects)
             THEN IsZeroTable(matrix', projects)
             ELSE matrix' = matrix]_vars

\* C6 witness: a visit has just replaced a 2 x 2 matrix with a cell set by
\* the all-zero 3 x 3 table of the three current projects.
C6_Witness ==
    /\ last.op = "visit"
    /\ last.idx >= 1
    /\ Len(projects) = 3
    /\ IsZeroTable(matrix, projects)

\* Position of project p in the registry.
PosOf(p) == CHOOSE i \in 1..Len(projects) : projects[i] = p

\* Project p ranks before project q: higher Importance, or equal Importance
\* and earlier in the registry.
RanksBefore(p, q) ==
    \/ ratings[p]["Importance"] > ratings[q]["Importance"]
    \/ ratings[p]["Importance"] = ratings[q]["Importance"] /\ PosOf(p) < PosOf(q)

\* Project p is among the 3 highest ranked projects of the registry.
InTopThree(p) ==
    /\ p \in Range(projects)
    /\ Cardinality({q \in Range(projects) : RanksBefore(q, p)}) < 3

\* C7: the projects offered for laddering are the min(3, n) projects of
\* highest Importance, in descending Importance, projects of equal
\* Importance in registry order.
C7_TopThreeStable ==
    LET top == Top3(projects, ratings) IN
    /\ Len(top) = IF Len(projects) < 3 THEN Len(projects) ELSE 3
    /\ Range(top) = {p \in Range(projects) : InTopThree(p)}
    /\ \A i, j \in 1..Len(top) : i < j => RanksBefore(top[i], top[j])

\* C7 witness: the laddering phase has just run with 4 projects, the 3
\* offered are not the first 3 of the registry, and two of them tie.
C7_Witness ==
    LET top == Top3(projects, ratings) IN
    /\ last.op = "setvalue"
    /\ Len(projects) = 4
    /\ top # SubSeq(projects, 1, 3)
    /\ \E i, j \in 1..Len(top) :
          i < j /\ ratings[top[i]]["Importance"] = ratings[top[j]]["Importance"]

\* C8: outside a reset no ladder entry disappears, an entry appears or
\* changes only in a laddering step with non-empty text, for a project that
\* is in the top 3 at that moment, and to non-empty text; so an empty
\* submission and a rating edit leave every entry as it is.
C8_LadderEntries ==
    [][last'.op # "reset"
          => /\ DOMAIN values \subseteq DOMAIN values'
             /\ \A n \in DOMAIN values' :
                   (n \notin DOMAIN values \/ values'[n] # values[n])
                      => /\ last'.op = "setvalue"
                         /\ last'.idx = 1
                         /\ InTopThree(n)
                         /\ values'[n] # ""]_vars

\* C8 witness: a rating edit has just moved a project that has a ladder
\* entry out of the top 3, and the entry is still there.
C8_Witness ==
    /\ last.op = "rate"
    /\ \E n \in DOMAIN values : n \in Range(projects) /\ ~InTopThree(n)

\* C9: with a non-empty registry the dashboard data, and the export made
\* from it, hold one row per registry project: as many rows as projects,
\* every registry name in exactly one row, and each row's Core Value is the
\* project's ladder entry when there is one and "N/A" otherwise.
C9_DashboardRows ==
    projects # <<>> =>
        LET df == DashboardData(projects, ratings, values)
            csv == ToCsv(df)
        IN  /\ Len(df) = Len(projects)
            /\ \A n \in Range(projects) :
                  Cardinality({i \in 1..Len(df) : df[i].Name = n}) = 1
            /\ \A i \in 1..Len(df) :
                  /\ df[i].Name \in Range(projects)
                  /\ df[i].CoreValue =
                        IF df[i].Name \in DOMAIN values THEN values[df[i].Name] ELSE "N/A"
            /\ Len(csv) = Len(projects) + 1
            /\ \A i \in 1..Len(df) :
                  /\ csv[i + 1][7] = df[i].Name
                  /\ csv[i + 1][8] = df[i].CoreValue

\* C9 witness: several projects, one with a ladder entry and one without.
C9_Witness ==
    /\ Len(projects) >= 3
    /\ \E n \in Range(projects) : n \in DOMAIN values
    /\ \E n \in Range(projects) : n \notin DOMAIN values

\* C10: for every stored rating set, on scaled integers: 3*Stress =
\* Difficulty + Challenge + (10 - Competence), 3*Meaning = Importance +
\* Value Congruency + Self-Identity, 3*Efficacy = Progress + Control +
\* Outcome, 2*Structure = Control + Time Adequacy, 2*Community = Visibility
\* + Support; every factor lies in [0,10]; and the project is flagged
\* high-stress exactly when Difficulty + Challenge + (10 - Competence) > 18.
C10_Factors ==
    \A p \in DOMAIN ratings :
        LET r == ratings[p]
            f == calculate_factors(r)
            row == Row(p, ratings, values)
        IN  /\ f.Stress.den > 0 /\ f.Meaning.den > 0 /\ f.Efficacy.den > 0
            /\ f.Structure.den > 0 /\ f.Community.den > 0
            /\ 3 * f.Stress.num =
                  f.Stress.den * (r["Difficulty"] + r["Challenge"] + (10 - r["Competence"]))
            /\ 3 * f.Meaning.num =
                  f.Meaning.den * (r["Importance"] + r["Value Congruency"] + r["Self-Identity"])
            /\ 3 * f.Efficacy.num =
                  f.Efficacy.den * (r["Progress"] + r["Control"] + r["Outcome"])
            /\ 2 * f.Structure.num = f.Structure.den * (r["Control"] + r["Time Adequacy"])
            /\ 2 * f.Community.num = f.Community.den * (r["Visibility"] + r["Support"])
            /\ \A k \in {"Stress", "Meaning", "Efficacy", "Structure", "Community"} :
                  0 <= f[k].num /\ f[k].num <= 10 * f[k].den
            /\ IsHighStress(row) <=> (r["Difficulty"] + r["Challenge"] + (10 - r["Competence"]) > 18)
            /\ NodeColor(row) = IF r["Difficulty"] + r["Challenge"] + (10 - r["Competence"]) > 18
                                THEN "#E74C3C" ELSE "#3498DB"

\* C10 witness: a slider edit has just left a project with Stress exactly
\* 6, which is not flagged.
C10_Witness ==
    /\ last.op = "rate"
    /\ \E p \in DOMAIN ratings :
          /\ ratings[p]["Difficulty"] + ratings[p]["Challenge"] + (10 - ratings[p]["Competence"]) = 18
          /\ ~IsHighStress(Row(p, ratings, values))

\* C11: the keys of the rating store are exactly the registry names, every
\* rating set has exactly the 16 dimensions with integer values in 0..10,
\* and a project that was just added has 5 in all 16 dimensions.
C11_RatingStoreShape ==
    /\ DOMAIN ratings = Range(projects)
    /\ \A p \in DOMAIN ratings :
          /\ DOMAIN ratings[p] = Dims
          /\ Cardinality(DOMAIN ratings[p]) = 16
          /\ \A d \in DOMAIN ratings[p] : ratings[p][d] \in 0..10
    /\ (last.op = "add" /\ last.idx = 1)
          => /\ last.name \in DOMAIN ratings
             /\ \A d \in Dims : ratings[last.name][d] = 5

\* C11 witness: a name that was in the registry before (its ladder entry is
\* still stored) has just been added again, next to a project whose
\* Importance is not the default.
C11_Witness ==
    /\ last.op = "add"
    /\ last.idx = 1
    /\ last.name \in DOMAIN values
    /\ \E p \in Range(projects) : ratings[p]["Importance"] # 5

\* C12: a delete leaves the value ladder store and the impact matrix as
\* they are, so the deleted project's ladder entry and its matrix row and
\* column are still stored right after it; afterwards the entry of a name
\* that is not in the registry changes only at a reset, and the matrix only
\* in a Cross-Impact run or a reset.
C12_DeleteKeepsLadderAndMatrix ==
    [][/\ last'.op = "delete" => (values' = values /\ matrix' = matrix)
       /\ \A n \in DOMAIN values :
             (n \notin Range(projects) /\ last'.op # "reset")
                => (n \in DOMAIN values' /\ values'[n] = values[n])
       /\ matrix' # matrix => last'.op \in {"visit", "editcell", "reset"}]_vars

\* C12 witness: a project with a ladder entry and a matrix row and column,
\* one of its cells set, has just been deleted; entry, row and column are
\* still stored.
C12_Witness ==
    /\ last.op = "delete"
    /\ \E n \in DOMAIN values :
          /\ n \notin Range(projects)
          /\ \E i, j \in 1..Len(matrix.index) :
                /\ matrix.index[i] = n
                /\ matrix.columns[i] = n
                /\ matrix.cells[i][j] # 0

\* C13: a Cross-Impact visit with fewer than 2 projects changes nothing:
\* the matrix keeps its labels and cells, and the registry, the rating
\* store and the ladder store are as before.
C13_VisitBelowMinimum ==
    [][(last'.op = "visit" /\ Len(projects) < 2)
          => /\ matrix'.index = matrix.index
             /\ matrix'.columns = matrix.columns
             /\ matrix'.cells = matrix.cells
             /\ projects' = projects
             /\ ratings' = ratings
             /\ values' = values]_vars

\* C13 witness: the phase has just been visited with one project left while
\* a larger matrix with a cell set is stored.
C13_Witness ==
    /\ last.op = "visit"
    /\ Len(projects) = 1
    /\ Len(matrix.index) >= 2
    /\ NonZeroCells(matrix) # {}

\* C14: with the dashboard rendered, an edge p1 -> p2 is in the edge list
\* exactly when p1 # p2 and the stored cell (p1, p2) is +1 or -1, once, green
\* for +1 and red dashed for -1; a zero cell, a diagonal cell and the cell
\* (p2, p1) do not bear on it.
C14_EdgeList ==
    projects # <<>> =>
        LET es == DashboardEdges(projects, matrix)
            rows == 1..Len(matrix.index)
            cols == 1..Len(matrix.columns)
            Drawn(i, j) ==
                {k \in 1..Len(es) : es[k].src = matrix.index[i] /\ es[k].dst = matrix.columns[j]}
        IN  /\ \A i \in rows, j \in cols :
                  /\ (matrix.index[i] # matrix.columns[j] /\ matrix.cells[i][j] \in {1, -1})
                        => Cardinality(Drawn(i, j)) = 1
                  /\ ~(matrix.index[i] # matrix.columns[j] /\ matrix.cells[i][j] \in {1, -1})
                        => Drawn(i, j) = {}
                  /\ \A k \in Drawn(i, j) :
                        /\ es[k].color = IF matrix.cells[i][j] = 1 THEN "#2ECC71" ELSE "#E74C3C"
                        /\ es[k].style = IF matrix.cells[i][j] = 1 THEN "solid" ELSE "dashed"
            /\ \A k \in 1..Len(es) : \E i \in rows, j \in cols : k \in Drawn(i, j)

\* C14 witness: the dashboard shows exactly one edge, for a cell (p1, p2)
\* whose mirror cell (p2, p1) is zero.
C14_Witness ==
    /\ projects # <<>>
    /\ Len(DashboardEdges(projects, matrix)) = 1
    /\ \E i, j \in 1..Len(matrix.index) :
          i # j /\ matrix.cells[i][j] \in {1, -1} /\ matrix.cells[j][i] = 0

\* C15: whenever the dashboard is rendered, both endpoints of every edge of
\* its edge list are names of projects in the registry.
C15_EdgeEndpointsRegistered ==
    \A k \in 1..Len(DashboardEdges(projects, matrix)) :
        /\ DashboardEdges(projects, matrix)[k].src \in Range(projects)
        /\ DashboardEdges(projects, matrix)[k].dst \in Range(projects)

\* C16: right after a successful add the new project has no ladder entry
\* and its dashboard Core Value is "N/A", whatever happened before.
C16_FreshProjectHasNoValue ==
    (last.op = "add" /\ last.idx = 1)
        => /\ last.name \notin DOMAIN values
           /\ CoreValue(values, last.name) = NoValue

\* C17: right after a Cross-Impact visit with 2 or more projects the row
\* labels and the column labels of the stored matrix are the registry list,
\* same names in the same order.
C17_LabelsFollowRegistry ==
    (last.op = "visit" /\ Len(projects) >= 2)
        => /\ matrix.index = projects
           /\ matrix.columns = projects

====
